---- MODULE Spec2Model ----
(***************************************************************************)
(* TFT augments helper: the recognition-and-matching pipeline of           *)
(* src/src/core.py (phase detector, approximate key resolver, stats        *)
(* lookup, display loop) together with the text canonicalizer of           *)
(* src/src/utils.py and the rank write of the control surface              *)
(* (src/main.py).                                                          *)
(*                                                                         *)
(* Python strings are sequences of one-character strings; the empty       *)
(* string is <<>>.  Python's None is the one-element sequence None, which  *)
(* is no string over any alphabet used here; the empty dict {} is          *)
(* EmptyStats.                                                             *)
(***************************************************************************)
EXTENDS Integers, Sequences, FiniteSets, TLC

\* ------------------------------------------------------------------ bounds

\* longest OCR read of an augment label handed to get_augment_stats
MaxTextLen == 2
\* keys held by the three slot tables of one rank, all slots together
MaxKeys == 2
\* keys held by the slot tables of the persisted configuration the display
\* loop runs against
MaxStoreKeys == 1
\* longest OCR read of an augment label in the display loop
MaxReadLen == 1
\* longest OCR read of the round indicator handed to is_augment_round
MaxRoundLen == 3
\* longest text handed to cleanse_text on its own
MaxCleanseLen == 4
\* widest and highest live resolution handed to translate_distance, in
\* twentieths of the reference resolution
MaxWidthSteps == 23
MaxHeightSteps == 23
\* most workers main_gui starts in one run
MaxProcesses == 4

\* ----------------------------------------------------------------- strings

None == <<"None">>
EmptyStats == <<>>

RECURSIVE StringsOfLen(_, _)
StringsOfLen(chars, n) ==
    IF n = 0 THEN {<<>>}
    ELSE {Append(s, c) : s \in StringsOfLen(chars, n - 1), c \in chars}

StringsUpTo(chars, n) == UNION {StringsOfLen(chars, k) : k \in 0..n}

\* str.lower() on the letters of the model's alphabets
LowerChar(c) ==
    IF c = "A" THEN "a" ELSE IF c = "B" THEN "b" ELSE IF c = "R" THEN "r" ELSE c

Lower(s) == [n \in 1..Len(s) |-> LowerChar(s[n])]

Digits == {"0", "1", "2", "3", "4", "5", "6", "7", "8", "9"}
Letters == {"a", "b", "A", "B", "R", "r", "o", "u", "n", "d", "J", "L", "e", "g"}
WhiteSpace == {" ", "\n", "\t"}

\* \w of Python's re on str: letters, digits and the underscore
IsWordChar(c) == c \in Letters \cup Digits \cup {"_"}

RECURSIVE LStrip(_)
LStrip(s) ==
    IF s # <<>> /\ Head(s) \in WhiteSpace THEN LStrip(Tail(s)) ELSE s

RECURSIVE RStrip(_)
RStrip(s) ==
    IF s # <<>> /\ s[Len(s)] \in WhiteSpace
    THEN RStrip(SubSeq(s, 1, Len(s) - 1)) ELSE s

\* str.strip()
Strip(s) == LStrip(RStrip(s))

RECURSIVE RemoveNewlines(_)
\* str.replace("\n", "")
RemoveNewlines(s) ==
    IF s = <<>> THEN <<>>
    ELSE IF Head(s) = "\n" THEN RemoveNewlines(Tail(s))
    ELSE <<Head(s)>> \o RemoveNewlines(Tail(s))

\* ------------------------------------------------------ text canonicalizer

RECURSIVE RemovePunctuation(_)
\* re.sub(r"[^\w\s()]", "", text)
RemovePunctuation(s) ==
    IF s = <<>> THEN <<>>
    ELSE IF IsWordChar(Head(s)) \/ Head(s) \in WhiteSpace \/ Head(s) \in {"(", ")"}
         THEN <<Head(s)>> \o RemovePunctuation(Tail(s))
         ELSE RemovePunctuation(Tail(s))

RECURSIVE IndexOf(_, _, _)
\* the least index >= n of s holding c, 0 if there is none
IndexOf(s, c, n) ==
    IF n > Len(s) THEN 0
    ELSE IF s[n] = c THEN n
    ELSE IndexOf(s, c, n + 1)

RECURSIVE RemoveParentheses(_)
\* re.sub(r"\([^)]*\)", "", text): leftmost non-overlapping spans from an
\* opening parenthesis to the next closing one
RemoveParentheses(s) ==
    IF s = <<>> THEN <<>>
    ELSE IF Head(s) = "(" /\ IndexOf(s, ")", 2) # 0
         THEN RemoveParentheses(SubSeq(s, IndexOf(s, ")", 2) + 1, Len(s)))
         ELSE <<Head(s)>> \o RemoveParentheses(Tail(s))

\* the text trimmed before, not after, the parenthesized spans are removed
cleanse_text_strip_first(text) ==
    RemoveNewlines(RemoveParentheses(Strip(RemovePunctuation(text))))

\* lines 21, 24 and 26 of src/utils.py, in this order
cleanse_text(text) ==
    RemoveNewlines(Strip(RemoveParentheses(RemovePunctuation(text))))

\* ------------------------------------------------- string similarity score

Max(a, b) == IF a >= b THEN a ELSE b

RECURSIVE CommonLen(_, _)
\* length of the longest common subsequence of a and b
CommonLen(a, b) ==
    IF a = <<>> \/ b = <<>> THEN 0
    ELSE IF Head(a) = Head(b) THEN 1 + CommonLen(Tail(a), Tail(b))
    ELSE Max(CommonLen(Tail(a), b), CommonLen(a, Tail(b)))

\* int(round(100 * 2 * m / t)), Python rounding half to even
Intr(m, t) ==
    LET q == (200 * m) \div t
        r == (200 * m) % t
    IN  IF 2 * r > t THEN q + 1
        ELSE IF 2 * r < t THEN q
        ELSE IF q % 2 = 0 THEN q ELSE q + 1

\* fuzz.ratio(s1, s2): 100 for equal strings, 0 when either is empty,
\* else the rounded percentage 2 * matches / (len(s1) + len(s2)), matches
\* being the characters the two strings have in common in order.  Both
\* arguments are lower-cased by the caller (line 73)
Ratio(s1, s2) ==
    IF s1 = s2 THEN 100
    ELSE IF s1 = <<>> \/ s2 = <<>> THEN 0
    ELSE Intr(CommonLen(s1, s2), Len(s1) + Len(s2))

\* ------------------------------------------------- approximate key resolver

\* a table (dict, insertion ordered) is a sequence of [key, stats] entries
\* with pairwise different keys
TableKeys(dictionary) == {dictionary[n].key : n \in 1..Len(dictionary)}

HasKey(dictionary, key) == \E n \in 1..Len(dictionary) : dictionary[n].key = key

\* dictionary[key]
Item(dictionary, key) ==
    dictionary[CHOOSE n \in 1..Len(dictionary) : dictionary[n].key = key].stats

\* >= written for >: a later key with the same score replaces the best one
BetterOrEqual(score, best_score) == score >= best_score

\* line 74: a key replaces the best one only with a strictly greater score
Better(score, best_score) == score > best_score

\* best_score starting below every score
InitialBestScoreBelow == 0 - 1

\* the value best_score starts from (line 70)
InitialBestScore == 0

RECURSIVE FindLoop(_, _, _, _, _)
\* the for loop of find_approximate_key from the n-th key on
FindLoop(dictionary, search_term, n, best_match, best_score) ==
    IF n > Len(dictionary) THEN <<best_match, best_score>>
    ELSE LET key == dictionary[n].key
             score == Ratio(Lower(key), search_term)
         IN  IF Better(score, best_score)
             THEN FindLoop(dictionary, search_term, n + 1, key, score)
             ELSE FindLoop(dictionary, search_term, n + 1, best_match, best_score)

find_approximate_key(dictionary, search_term) ==
    FindLoop(dictionary, Lower(search_term), 1, None, InitialBestScore)

\* ------------------------------------------------------------- stats lookup

Slots == 1..3

\* config[f"{rank}_{i}"]
ConfigTable(config, rank, i) == config.tables[<<rank, i>>]

\* the lookup without its exact test
ExactHitNever(augment_dict, text) == FALSE

\* line 172: the canonicalized text is literally a key of the slot's table
ExactHit(augment_dict, text) == HasKey(augment_dict, text)

\* >= written for >: a later slot with the same score replaces the best
SlotBetterTies(score, best_score) == score >= best_score /\ score > 0

\* line 179: a slot's best match replaces the running best
SlotBetter(score, best_score) == score > best_score

RECURSIVE SlotLoop(_, _, _, _)
\* the for loop of get_augment_stats from slot i on; st holds key_to_keep,
\* best_score and stats, and reads lists the config tables read so far
SlotLoop(config, text, i, st) ==
    IF i > 3 THEN st
    ELSE LET augment_dict == ConfigTable(config, config.rank, i)
             reads == Append(st.reads, <<config.rank, i>>)
         IN  IF ExactHit(augment_dict, text)
             THEN [key_to_keep |-> text, stats |-> Item(augment_dict, text),
                   best_score |-> 100, reads |-> reads]
             ELSE LET found == find_approximate_key(augment_dict, text)
                  IN  IF SlotBetter(found[2], st.best_score)
                      THEN SlotLoop(config, text, i + 1,
                               [key_to_keep |-> found[1],
                                stats |-> Item(augment_dict, found[1]),
                                best_score |-> found[2], reads |-> reads])
                      ELSE SlotLoop(config, text, i + 1, [st EXCEPT !.reads = reads])

\* get_augment_stats from the OCR read of the label on: returns key_to_keep
\* and stats (best_score and the tables read are kept for the properties)
get_augment_stats(config, ocr_text) ==
    SlotLoop(config, cleanse_text(ocr_text), 1,
             [key_to_keep |-> None, stats |-> EmptyStats,
              best_score |-> 0, reads |-> <<>>])

\* ------------------------------------------------------------ phase detector

\* range(13, 5, -1)
FirstPreset == 13
LastPreset == 6
Presets == LastPreset..FirstPreset

RECURSIVE DigitRun(_, _)
\* how many digits s holds in a row from index n on
DigitRun(s, n) ==
    IF n <= Len(s) /\ s[n] \in Digits THEN 1 + DigitRun(s, n + 1) ELSE 0

\* the match of \d+-?\d+ starting at index n, None if there is none there:
\* a digit run, a hyphen and the next digit run, or else a run of two or
\* more digits
MatchAt(s, n) ==
    LET run == DigitRun(s, n)
        after == n + run
    IN  IF run = 0 THEN None
        ELSE IF after <= Len(s) /\ s[after] = "-" /\ DigitRun(s, after + 1) > 0
             THEN SubSeq(s, n, after + DigitRun(s, after + 1))
        ELSE IF run >= 2 THEN SubSeq(s, n, after - 1)
        ELSE None

RECURSIVE FirstMatchFrom(_, _)
FirstMatchFrom(s, n) ==
    IF n > Len(s) THEN None
    ELSE IF MatchAt(s, n) # None THEN MatchAt(s, n)
    ELSE FirstMatchFrom(s, n + 1)

\* lines 112-117: re.findall(r"\d+-?\d+", text)[0], None without a match
FirstMatch(text) == FirstMatchFrom(text, 1)

\* the list without the forms low resolution OCR reads
AllowedRoundsHyphenOnly ==
    {<<"2", "-", "1">>, <<"3", "-", "2">>, <<"4", "-", "2">>}

\* line 119
AllowedRounds ==
    {<<"2", "-", "1">>, <<"3", "-", "2">>, <<"4", "-", "2">>,
     <<"2", "1">>, <<"3", "2">>, <<"4", "2">>}

\* lines 107-111: the preset's OCR read, stripped and without newlines
RoundText(ocr_text) == RemoveNewlines(Strip(ocr_text))

\* line 119: the loop stops at this preset
RoundHit(round_number) == round_number \in AllowedRounds

RECURSIVE PresetLoop(_, _)
\* the for loop of is_augment_round from preset i down; ocr gives the text
\* the OCR engine reads from the captured image under each preset
PresetLoop(ocr, i) ==
    IF i < LastPreset THEN FALSE
    ELSE IF RoundHit(FirstMatch(RoundText(ocr[i]))) THEN TRUE
    ELSE PresetLoop(ocr, i - 1)

is_augment_round(ocr) == PresetLoop(ocr, FirstPreset)

\* ------------------------------------------------------ configuration store

\* two of the ranks of RANKS (src/main.py), the last one being the default
Ranks == {"gold", "challenger"}

\* augment names the reference tables are keyed by
AugmentNames == {<<"a">>, <<"A">>, <<"a", "b">>, <<"b">>}

\* characters of an OCR read of an augment label
LabelChars == {"a", "A", "b", "!"}
LabelTexts == StringsUpTo(LabelChars, MaxTextLen)

\* characters of an OCR read of the round indicator
RoundChars == {"1", "2", "4", "-", "R", " ", "\n"}
RoundTexts == StringsUpTo(RoundChars, MaxRoundLen)

\* OCR reads of the labels the display loop is run against
LoopTexts == StringsUpTo(LabelChars, MaxReadLen)

\* reads of the round indicator the display loop is run against, one text
\* per preset: another round from every preset, or a target round from
\* exactly one of them
RoundReads ==
    {[p \in Presets |-> IF p = k THEN <<"2", "-", "1">> ELSE <<"1", "-", "4">>] :
        k \in Presets \cup {0}}

\* augment names of the configuration the display loop runs against
LoopNames == {<<"a">>, <<"b">>}

\* sequences of at most n pairwise different names
KeySeqs(names, n) ==
    {q \in UNION {[1..k -> names] : k \in 0..n} :
        \A a, b \in 1..Len(q) : a # b => q[a] # q[b]}

\* the keys of the three slot tables of a rank, at most n keys in all
Layouts(names, n) ==
    {l \in [Slots -> KeySeqs(names, n)] : Len(l[1]) + Len(l[2]) + Len(l[3]) <= n}

\* the record {pick_rate, avg_place, win_rate} stored for a key: every
\* record of the store differs from every other one
StatsOf(rank, i, key) == <<rank, i, key>>

\* the "<rank>_<slot>" tables of config.json: every rank lists the same
\* augments, each with the rank's own statistics
TablesOf(layout) ==
    [t \in Ranks \X Slots |->
        [n \in 1..Len(layout[t[2]]) |->
            [key |-> layout[t[2]][n],
             stats |-> StatsOf(t[1], t[2], layout[t[2]][n])]]]

\* the contents config.json can have once init_data has run
Stores(names, n) ==
    {[rank |-> r, tables |-> TablesOf(l)] : r \in Ranks, l \in Layouts(names, n)}

NoConfig == [rank |-> "", tables |-> <<>>]

\* the configuration is read from config.json only the first time
load_config_cached(persisted, cached) ==
    IF cached = NoConfig THEN persisted ELSE cached

\* load_config(): the configuration as persisted at the time of the call;
\* what the loop loaded in an earlier cycle (cached) plays no part
load_config(persisted, cached) == persisted

\* edit_config("rank", value, config) of the control surface
edit_rank(persisted, value) == [persisted EXCEPT !.rank = value]

\* --------------------------------------------------- float arithmetic

\* A natural number of any size is the sequence of its digits in base Limb,
\* lowest digit first and no zero digit last; 0 is <<>>.
Limb == 2^14

RECURSIVE Norm(_)
Norm(a) ==
    IF a # <<>> /\ a[Len(a)] = 0 THEN Norm(SubSeq(a, 1, Len(a) - 1)) ELSE a

RECURSIVE BigOf(_)
BigOf(n) == IF n = 0 THEN <<>> ELSE <<n % Limb>> \o BigOf(n \div Limb)

RECURSIVE NatOf(_)
NatOf(a) == IF a = <<>> THEN 0 ELSE a[1] + Limb * NatOf(Tail(a))

RECURSIVE MulAdd(_, _, _)
\* a * k + carry, for k < Limb
MulAdd(a, k, carry) ==
    IF a = <<>> THEN BigOf(carry)
    ELSE LET t == a[1] * k + carry
         IN  <<t % Limb>> \o MulAdd(Tail(a), k, t \div Limb)

RECURSIVE DivFrom(_, _, _, _)
\* quotient and remainder of the digits 1..n of a, with rem carried in from
\* the digits above them, by k < Limb
DivFrom(a, n, k, rem) ==
    IF n = 0 THEN <<<<>>, rem>>
    ELSE LET cur == rem * Limb + a[n]
             low == DivFrom(a, n - 1, k, cur % k)
         IN  <<Append(low[1], cur \div k), low[2]>>

\* <<a div k, a mod k>>
DivMod(a, k) ==
    LET qr == DivFrom(a, Len(a), k, 0) IN <<Norm(qr[1]), qr[2]>>

RECURSIVE ShiftLeft(_, _)
\* a * 2^bits
ShiftLeft(a, bits) ==
    IF a = <<>> \/ bits = 0 THEN a
    ELSE IF bits >= 14 THEN <<0>> \o ShiftLeft(a, bits - 14)
    ELSE Norm(MulAdd(a, 2^bits, 0))

RECURSIVE ShiftRight(_, _)
\* a div 2^bits
ShiftRight(a, bits) ==
    IF a = <<>> \/ bits = 0 THEN a
    ELSE IF bits >= 14 THEN ShiftRight(Tail(a), bits - 14)
    ELSE DivMod(a, 2^bits)[1]

RECURSIVE BitsOf(_)
BitsOf(n) == IF n = 0 THEN 0 ELSE 1 + BitsOf(n \div 2)

\* the number of binary digits of a
BitLen(a) == IF a = <<>> THEN 0 ELSE 14 * (Len(a) - 1) + BitsOf(a[Len(a)])

RECURSIVE LessFrom(_, _, _)
LessFrom(a, b, n) ==
    IF n = 0 THEN FALSE
    ELSE IF a[n] # b[n] THEN a[n] < b[n]
    ELSE LessFrom(a, b, n - 1)

\* a < b
Less(a, b) ==
    IF Len(a) # Len(b) THEN Len(a) < Len(b) ELSE LessFrom(a, b, Len(a))

\* the width of the significand of a Python float (an IEEE 754 double)
Precision == 53

\* round to nearest, ties to even: q is the result cut off, and rem, out of
\* unit, what was cut off
RoundHalfEven(q, rem, unit) ==
    IF 2 * rem > unit \/ (2 * rem = unit /\ q # <<>> /\ q[1] % 2 = 1)
    THEN Norm(MulAdd(q, 1, 1))
    ELSE q

\* A float x >= 0 is [m, s], its value being m / 2^s, m of at most
\* Precision binary digits (or 2^Precision after rounding up).

RECURSIVE Up(_, _)
\* the least t with n * 2^t >= m
Up(n, m) == IF n >= m THEN 0 ELSE 1 + Up(2 * n, m)

RECURSIVE Down(_, _)
\* the greatest u with n >= m * 2^u
Down(n, m) == IF n < 2 * m THEN 0 ELSE 1 + Down(n, 2 * m)

\* n / m of two ints, n >= 0 < m: the float nearest to the quotient
FloatDiv(n, m) ==
    IF n = 0 THEN [m |-> <<>>, s |-> 0]
    ELSE LET s == (Precision - 1) + Up(n, m) - Down(n, m)
             qr == DivMod(ShiftLeft(BigOf(n), s), m)
         IN  [m |-> RoundHalfEven(qr[1], qr[2], m), s |-> s]

\* d * x of an int d >= 0 and a float x: the float nearest to the product
FloatMulInt(d, x) ==
    LET p == Norm(MulAdd(x.m, d, 0))
        cut == BitLen(p) - Precision
    IN  IF cut <= 0 THEN [m |-> p, s |-> x.s]
        ELSE LET qr == DivMod(p, 2^cut)
             IN  [m |-> RoundHalfEven(qr[1], qr[2], 2^cut), s |-> x.s - cut]

\* x < y
FloatLess(x, y) ==
    LET lo == IF x.s <= y.s THEN x.s ELSE y.s
    IN  Less(ShiftLeft(x.m, y.s - lo), ShiftLeft(y.m, x.s - lo))

\* min(x, y): the first argument unless the second is smaller
FloatMin(x, y) == IF FloatLess(y, x) THEN y ELSE x

\* int(x): the integer part
FloatToInt(x) == NatOf(ShiftRight(x.m, x.s))

\* ------------------------------------------------------ translate_distance

\* a reference height mistyped
old_height_mistyped == 1440 + 160

\* line 156: the resolution the distances were measured at
old_width == 2560
old_height == 1440

\* lines 156-169
translate_distance(old_distance, new_resolution) ==
    LET new_width == new_resolution[1]
        new_height == new_resolution[2]
        width_scale == FloatDiv(new_width, old_width)
        height_scale == FloatDiv(new_height, old_height)
        scale_factor == FloatMin(width_scale, height_scale)
        new_distance == FloatMulInt(old_distance, scale_factor)
    IN  FloatToInt(new_distance)

\* -------------------------------------------------------------------- state

VARIABLES
    \* display loop (display_stats)
    pc,            \* "start", "check", "lookup", "render", "idle", "crashed"
    canvas,        \* the texts on the canvas, <<x_position, text>> each
    timer,         \* the local timer
    stats_buffer,  \* the local stats_buffer
    config,        \* the configuration last loaded by the loop
    is_target,     \* what is_augment_round returned in this cycle
    pending,       \* delays of the callbacks registered with root.after
    store,         \* config.json
    reads,         \* the config tables the lookups of this cycle have read
    fresh,         \* no rank was persisted since config was loaded
    prev_rank,     \* the rank of the configuration loaded before config, or ""
    \* one call of is_augment_round, preset by preset
    r_pc,          \* "idle", "loop", "after", "done", "raised"
    r_i,           \* the loop variable i
    r_text,        \* the locals text and round_number once the loop has ended
    r_round_number,
    r_is_aug_round,
    r_result,      \* the value returned
    r_consulted,   \* presets the OCR engine was run with in this call
    r_first_token, \* first preset whose text held a round number, 0 if none
    r_seen_target, \* some preset consulted read one of the target labels
    \* one call of get_augment_stats or find_approximate_key on given inputs
    f_pc,          \* "ready", "stats", "key"; "raw", "cleansed", "cleansed twice"
    f_config,
    f_text,        \* the OCR read of the label
    f_slot,        \* the slot whose table find_approximate_key was given
    f_result,      \* what the call returned
    \* translate_distance on given arguments
    t_pc,          \* "idle", "given", "translated"
    t_distance,    \* old_distance
    t_resolution,  \* new_resolution, <<new_width, new_height>>
    t_result,      \* the value returned for them
    t_before,      \* the value returned before the resolution grew, -1 if none
    \* main_gui (src/main.py)
    g_pc,          \* "off", "reading" (at window.read()), "closed"
    down_f3,       \* the local down_f3
    list_processes,\* the local list_processes: the state of each Process
    g_event,       \* the event handled last
    g_trace        \* what handling it did to workers and config.json, in order

loop_vars == <<pc, canvas, timer, stats_buffer, config, is_target, pending,
               store, reads, fresh, prev_rank>>
round_vars == <<r_pc, r_i, r_text, r_round_number, r_is_aug_round, r_result,
                r_consulted, r_first_token, r_seen_target>>
fn_vars == <<f_pc, f_config, f_text, f_slot, f_result>>
scale_vars == <<t_pc, t_distance, t_resolution, t_result, t_before>>
gui_vars == <<g_pc, down_f3, list_processes, g_event, g_trace>>
vars == <<loop_vars, round_vars, fn_vars, scale_vars, gui_vars>>

\* ------------------------------------------------------------- display loop

ShortDelay == 3000
LongDelay == 5000

\* x_positions = [left_position, middle_x, right_position], by their index
x_positions == <<1, 2, 3>>

\* the long delay whenever nothing is to be drawn
TimerForSwapped(is_aug_round) == IF is_aug_round THEN LongDelay ELSE ShortDelay

\* lines 215 and 228-229: the delay of the next cycle
TimerFor(is_aug_round) == IF is_aug_round THEN ShortDelay ELSE LongDelay

\* all() written for any(): drawn as soon as one key is not None
DrawableIfAny(buffer) ==
    buffer = <<>> \/ \E n \in 1..Len(buffer) : buffer[n][1] # None

\* line 231: not any(item[0] is None for item in stats_buffer)
Drawable(buffer) == ~ \E n \in 1..Len(buffer) : buffer[n][1] = None

\* line 233: the text built from stats["pick_rate"], stats["avg_place"] and
\* stats["win_rate"]; the empty dict has none of them (KeyError)
HasFields(stats) == stats # EmptyStats

text_to_display(stats) ==
    <<"pick_rate", stats[1], "avg_place", stats[2], "win_rate", stats[3]>>

\* lines 232-242: the items of the buffer drawn before the loop ends or raises
RECURSIVE DrawItems(_, _)
DrawItems(buffer, n) ==
    IF n > Len(buffer) \/ ~HasFields(buffer[n][2]) THEN <<>>
    ELSE <<<<buffer[n][3], text_to_display(buffer[n][2])>>>>
         \o DrawItems(buffer, n + 1)

\* root.after moved into the target-phase branch
ScheduleIfTarget(queue, delay) ==
    IF delay = ShortDelay THEN Append(queue, delay) ELSE queue

\* lines 244-249: root.after(timer, ...) registers one callback
ScheduleNext(queue, delay) == Append(queue, delay)

\* lines 214-219: canvas.delete("all"), timer = 3000, stats_buffer = []
Enter ==
    /\ canvas' = <<>>
    /\ timer' = ShortDelay
    /\ stats_buffer' = <<>>
    /\ is_target' = FALSE
    /\ reads' = {}
    /\ pc' = "check"
    /\ UNCHANGED <<config, store, fresh, prev_rank>>

\* process() calls display_stats (line 287)
FirstCall ==
    /\ pc = "start"
    /\ Enter
    /\ UNCHANGED <<pending, round_vars, fn_vars,
                   scale_vars, gui_vars>>

\* the Tk main loop runs a registered callback
TimerFire ==
    /\ pc = "idle"
    /\ pending # <<>>
    /\ pending' = Tail(pending)
    /\ Enter
    /\ UNCHANGED <<round_vars, fn_vars,
                   scale_vars, gui_vars>>

\* lines 221-222 and 228-229: what follows the phase check, load_config()
\* or the long delay
PhaseChecked(is_aug_round) ==
    /\ is_target' = is_aug_round
    /\ timer' = TimerFor(is_aug_round)
    /\ IF is_aug_round
       THEN /\ config' = load_config(store, config)
            /\ fresh' = TRUE
            /\ prev_rank' = config.rank
            /\ pc' = "lookup"
       ELSE /\ UNCHANGED <<config, fresh, prev_rank>>
            /\ pc' = "render"
    /\ UNCHANGED <<canvas, stats_buffer, pending, store, reads, round_vars, fn_vars,
                   scale_vars, gui_vars>>

\* line 221: is_augment_round on what the OCR engine reads from the screen
CheckPhase ==
    /\ pc = "check"
    /\ \E ocr \in RoundReads : PhaseChecked(is_augment_round(ocr))

\* line 221, the phase check returning either value
CheckPhaseAny ==
    /\ pc = "check"
    /\ \E is_aug_round \in BOOLEAN : PhaseChecked(is_aug_round)

\* lines 223-227: one turn of the loop over x_positions
Lookup ==
    /\ pc = "lookup"
    /\ \E ocr_text \in LoopTexts :
          LET x_position == x_positions[Len(stats_buffer) + 1]
              got == get_augment_stats(config, ocr_text)
          IN  /\ stats_buffer' =
                    Append(stats_buffer, <<got.key_to_keep, got.stats, x_position>>)
              /\ reads' = reads \cup {got.reads[n] : n \in 1..Len(got.reads)}
    /\ pc' = IF Len(stats_buffer) + 1 = Len(x_positions) THEN "render" ELSE "lookup"
    /\ UNCHANGED <<canvas, timer, config, is_target, pending, store, fresh,
                   prev_rank, round_vars, fn_vars,
                   scale_vars, gui_vars>>

\* lines 231-249: draw the buffer if no key is None, then reschedule; an
\* exception raised while drawing leaves the callback before root.after
Render ==
    /\ pc = "render"
    /\ IF Drawable(stats_buffer)
       THEN /\ canvas' = canvas \o DrawItems(stats_buffer, 1)
            /\ IF \A n \in 1..Len(stats_buffer) : HasFields(stats_buffer[n][2])
               THEN /\ pending' = ScheduleNext(pending, timer)
                    /\ pc' = "idle"
               ELSE /\ UNCHANGED pending
                    /\ pc' = "crashed"
       ELSE /\ UNCHANGED canvas
            /\ pending' = ScheduleNext(pending, timer)
            /\ pc' = "idle"
    /\ UNCHANGED <<timer, stats_buffer, config, is_target, store, reads, fresh,
                   prev_rank, round_vars, fn_vars,
                   scale_vars, gui_vars>>

\* main_gui, event "rank" (src/main.py line 232): the control surface
\* persists another rank
PersistRank ==
    /\ \E value \in Ranks :
          /\ value # store.rank
          /\ store' = edit_rank(store, value)
    /\ fresh' = FALSE
    /\ UNCHANGED <<pc, canvas, timer, stats_buffer, config, is_target, pending,
                   reads, prev_rank, round_vars, fn_vars,
                   scale_vars, gui_vars>>

RoundIdle ==
    /\ r_pc = "idle"
    /\ r_i = FirstPreset
    /\ r_text = <<>>
    /\ r_round_number = None
    /\ r_is_aug_round = FALSE
    /\ r_result = FALSE
    /\ r_consulted = {}
    /\ r_first_token = 0
    /\ r_seen_target = FALSE

FnIdle ==
    /\ f_pc = "idle"
    /\ f_config = NoConfig
    /\ f_text = <<>>
    /\ f_slot = 0
    /\ f_result = <<>>

ScaleIdle ==
    /\ t_pc = "idle"
    /\ t_distance = 0
    /\ t_resolution = <<0, 0>>
    /\ t_result = 0 - 1
    /\ t_before = 0 - 1

GuiIdle ==
    /\ g_pc = "off"
    /\ down_f3 = FALSE
    /\ list_processes = <<>>
    /\ g_event = <<>>
    /\ g_trace = <<>>

LoopIdle ==
    /\ pc = "off"
    /\ canvas = <<>>
    /\ timer = ShortDelay
    /\ stats_buffer = <<>>
    /\ config = NoConfig
    /\ is_target = FALSE
    /\ pending = <<>>
    /\ store = NoConfig
    /\ reads = {}
    /\ fresh = TRUE
    /\ prev_rank = ""

\* process() has built the window and the canvas; config.json holds the
\* tables and a rank
Init ==
    /\ pc = "start"
    /\ canvas = <<>>
    /\ timer = ShortDelay
    /\ stats_buffer = <<>>
    /\ config = NoConfig
    /\ is_target = FALSE
    /\ pending = <<>>
    /\ store \in Stores(LoopNames, MaxStoreKeys)
    /\ reads = {}
    /\ fresh = TRUE
    /\ prev_rank = ""
    /\ RoundIdle
    /\ ScaleIdle
    /\ GuiIdle
    /\ FnIdle

Next ==
    \/ FirstCall
    \/ TimerFire
    \/ CheckPhase
    \/ Lookup
    \/ Render
    \/ PersistRank

Spec == Init /\ [][Next]_vars

NextAny ==
    \/ FirstCall
    \/ TimerFire
    \/ CheckPhaseAny
    \/ Lookup
    \/ Render
    \/ PersistRank

\* the display loop whatever the phase check returns; the Tk main loop runs
\* a due callback, and a running callback runs on to its end
FairSpec ==
    /\ Init
    /\ [][NextAny]_vars
    /\ WF_vars(FirstCall)
    /\ WF_vars(TimerFire)
    /\ WF_vars(CheckPhaseAny)
    /\ WF_vars(Lookup)
    /\ WF_vars(Render)

\* ------------------------------------- is_augment_round, preset by preset

\* the labels of the rounds in which augments are offered
TargetLabels ==
    {<<"2", "-", "1">>, <<"3", "-", "2">>, <<"4", "-", "2">>,
     <<"2", "1">>, <<"3", "2">>, <<"4", "2">>}

\* lines 97-103: the image is captured, is_aug_round = False
RoundCall ==
    /\ r_pc \in {"idle", "done"}
    /\ r_pc' = "loop"
    /\ r_i' = FirstPreset
    /\ r_text' = <<>>
    /\ r_round_number' = None
    /\ r_is_aug_round' = FALSE
    /\ r_result' = FALSE
    /\ r_consulted' = {}
    /\ r_first_token' = 0
    /\ r_seen_target' = FALSE
    /\ UNCHANGED <<loop_vars, fn_vars,
                   scale_vars, gui_vars>>

\* break as soon as a round number was read
StopsAtAnyToken(round_number, i) == round_number # None \/ i = LastPreset

\* line 121: break once the round number is a target; else the next lower
\* preset, if range(13, 5, -1) has one
StopsAt(round_number, i) == RoundHit(round_number) \/ i = LastPreset

\* lines 106-121: one turn of the loop, ocr_text being what the OCR engine
\* reads under preset i.  text and round_number are overwritten by the next
\* turn before anything reads them, so they are kept only from the last turn
RoundIter ==
    /\ r_pc = "loop"
    /\ \E ocr_text \in RoundTexts :
          LET text == RoundText(ocr_text)
              round_number == FirstMatch(text)
              stops == StopsAt(round_number, r_i)
          IN  /\ r_text' = IF stops THEN text ELSE <<>>
              /\ r_round_number' = IF stops THEN round_number ELSE None
              /\ r_is_aug_round' = (r_is_aug_round \/ RoundHit(round_number))
              /\ r_pc' = IF stops THEN "after" ELSE "loop"
              /\ r_i' = IF stops THEN r_i ELSE r_i - 1
              /\ r_first_token' =
                    IF r_first_token = 0 /\ round_number # None
                    THEN r_i ELSE r_first_token
              /\ r_seen_target' = (r_seen_target \/ round_number \in TargetLabels)
    /\ r_consulted' = r_consulted \cup {r_i}
    /\ UNCHANGED <<r_result, loop_vars, fn_vars,
                   scale_vars, gui_vars>>

\* line 108: pytesseract.image_to_string raises (the engine is missing, exits
\* with an error or times out); nothing in is_augment_round catches it, so
\* the call ends at preset i without a value
RoundRaise ==
    /\ r_pc = "loop"
    /\ r_pc' = "raised"
    /\ r_consulted' = r_consulted \cup {r_i}
    /\ UNCHANGED <<r_i, r_text, r_round_number, r_is_aug_round, r_result,
                   r_first_token, r_seen_target, loop_vars, fn_vars,
                   scale_vars, gui_vars>>

\* lines 123-127
RoundReturn ==
    /\ r_pc = "after"
    /\ r_pc' = "done"
    /\ r_result' = r_is_aug_round
    /\ UNCHANGED <<r_i, r_text, r_round_number, r_is_aug_round, r_consulted,
                   r_first_token, r_seen_target, loop_vars, fn_vars,
                   scale_vars, gui_vars>>

InitRound == LoopIdle /\ RoundIdle /\ FnIdle /\ ScaleIdle /\ GuiIdle

NextRound ==
    \/ RoundCall
    \/ RoundIter
    \/ RoundRaise
    \/ RoundReturn

SpecRound == InitRound /\ [][NextRound]_vars

\* ------------------- get_augment_stats and find_approximate_key on inputs

\* get_augment_stats(config, ...) on the OCR read f_text
CallGetStats ==
    /\ f_pc = "ready"
    /\ f_pc' = "stats"
    /\ f_result' = get_augment_stats(f_config, f_text)
    /\ UNCHANGED <<f_config, f_text, f_slot, loop_vars, round_vars,
                   scale_vars, gui_vars>>

\* find_approximate_key(augment_dict, text) as line 177 calls it, on the
\* table of one slot
CallFindKey ==
    /\ f_pc = "ready"
    /\ \E i \in Slots :
          /\ f_slot' = i
          /\ f_result' = find_approximate_key(
                 ConfigTable(f_config, f_config.rank, i), cleanse_text(f_text))
    /\ f_pc' = "key"
    /\ UNCHANGED <<f_config, f_text, loop_vars, round_vars,
                   scale_vars, gui_vars>>

InitLookup ==
    /\ LoopIdle
    /\ RoundIdle
    /\ ScaleIdle
    /\ GuiIdle
    /\ f_pc = "ready"
    /\ f_config \in Stores(AugmentNames, MaxKeys)
    /\ f_text \in LabelTexts
    /\ f_slot = 0
    /\ f_result = <<>>

NextLookup ==
    \/ CallGetStats
    \/ CallFindKey

SpecLookup == InitLookup /\ [][NextLookup]_vars

\* --------------------------------------------------- cleanse_text on inputs

\* characters of the texts cleanse_text is run on: a word character, both
\* parentheses, a blank, a newline and a punctuation mark
CleanseChars == {"a", "(", ")", " ", "\n", "!"}
CleanseTexts == StringsUpTo(CleanseChars, MaxCleanseLen)

\* cleanse_text(f_text); f_result lists the values returned so far
CleanseOnce ==
    /\ f_pc = "raw"
    /\ f_pc' = "cleansed"
    /\ f_result' = <<cleanse_text(f_text)>>
    /\ UNCHANGED <<f_config, f_text, f_slot, loop_vars, round_vars,
                   scale_vars, gui_vars>>

\* cleanse_text applied to what the first call returned
CleanseAgain ==
    /\ f_pc = "cleansed"
    /\ f_pc' = "cleansed twice"
    /\ f_result' = Append(f_result, cleanse_text(f_result[1]))
    /\ UNCHANGED <<f_config, f_text, f_slot, loop_vars, round_vars,
                   scale_vars, gui_vars>>

InitCleanse ==
    /\ LoopIdle
    /\ RoundIdle
    /\ ScaleIdle
    /\ GuiIdle
    /\ f_pc = "raw"
    /\ f_config = NoConfig
    /\ f_text \in CleanseTexts
    /\ f_slot = 0
    /\ f_result = <<>>

NextCleanse ==
    \/ CleanseOnce
    \/ CleanseAgain

SpecCleanse == InitCleanse /\ [][NextCleanse]_vars

\* --------------------------------------------- translate_distance on inputs

\* the reference distances the callers pass (70, 300 and 100: src/core.py
\* lines 98, 99, 219 and 220), and 0 and 1
Distances == {0, 1, 70, 100, 300}

\* live resolutions: widths and heights in steps of a twentieth of the
\* reference ones, so that most scales are no binary fractions
WidthStep == old_width \div 20
HeightStep == old_height \div 20
Widths == {WidthStep * k : k \in 0..MaxWidthSteps}
Heights == {HeightStep * k : k \in 0..MaxHeightSteps}

\* translate_distance(t_distance, t_resolution)
Translate ==
    /\ t_pc = "given"
    /\ t_pc' = "translated"
    /\ t_result' = translate_distance(t_distance, t_resolution)
    /\ UNCHANGED <<t_distance, t_resolution, t_before, loop_vars, round_vars,
                   fn_vars, gui_vars>>

\* the same distance translated again for a resolution one step wider
GrowWidth ==
    /\ t_pc = "translated"
    /\ t_resolution[1] + WidthStep \in Widths
    /\ t_resolution' = <<t_resolution[1] + WidthStep, t_resolution[2]>>
    /\ t_before' = t_result
    /\ t_result' = translate_distance(t_distance, t_resolution')
    /\ UNCHANGED <<t_pc, t_distance, loop_vars, round_vars, fn_vars, gui_vars>>

\* the same distance translated again for a resolution one step higher
GrowHeight ==
    /\ t_pc = "translated"
    /\ t_resolution[2] + HeightStep \in Heights
    /\ t_resolution' = <<t_resolution[1], t_resolution[2] + HeightStep>>
    /\ t_before' = t_result
    /\ t_result' = translate_distance(t_distance, t_resolution')
    /\ UNCHANGED <<t_pc, t_distance, loop_vars, round_vars, fn_vars, gui_vars>>

InitScale ==
    /\ LoopIdle
    /\ RoundIdle
    /\ FnIdle
    /\ GuiIdle
    /\ t_pc = "given"
    /\ t_distance \in Distances
    /\ t_resolution \in Widths \X Heights
    /\ t_result = 0 - 1
    /\ t_before = 0 - 1

NextScale ==
    \/ Translate
    \/ GrowWidth
    \/ GrowHeight

SpecScale == InitScale /\ [][NextScale]_vars

\* ------------------------------------------------------ main_gui, the event loop

\* A Process of list_processes is [ended, terminate_called]: whether and how
\* the child has ended ("no", "by itself", "by terminate") and whether
\* terminate() was called on it.

\* terminate() never called
kill_processes_none(processes) == processes

\* kill_processes (src/main.py lines 193-194): terminate() on every Process
kill_processes(processes) ==
    [n \in 1..Len(processes) |->
        [ended |-> IF processes[n].ended = "no" THEN "by terminate"
                   ELSE processes[n].ended,
         terminate_called |-> TRUE]]

\* lines 238-240: p = Process(...), p.start(), list_processes.append(p)
start_process(processes) ==
    Append(processes, [ended |-> "no", terminate_called |-> FALSE])

\* set_process_state returns the state it was given (line 49)
set_process_state(is_running) == is_running

\* the events window.read() returns: the F3 key or button, a rank picked in
\* the combo, the window closed
Events == {<<"F3">>, <<"close">>} \cup {<<"rank", value>> : value \in Ranks}

\* lines 220-242: one turn of the event loop on the event read
HandleEvent ==
    /\ g_pc = "reading"
    /\ \E event \in Events :
          /\ g_event' = event
          /\ IF event = <<"close">>
             THEN /\ list_processes' = kill_processes(list_processes)
                  /\ g_trace' = <<"terminate", "close">>
                  /\ g_pc' = "closed"
                  /\ UNCHANGED <<down_f3, store>>
             ELSE LET is_rank == event[1] = "rank"
                      killed == IF is_rank THEN kill_processes(list_processes)
                                ELSE list_processes
                      running == IF event = <<"F3">>
                                 THEN set_process_state(~down_f3) ELSE down_f3
                  IN  /\ running => Len(list_processes) < MaxProcesses
                      /\ store' = IF is_rank THEN edit_rank(store, event[2]) ELSE store
                      /\ down_f3' = running
                      /\ list_processes' = IF running THEN start_process(killed)
                                           ELSE kill_processes(killed)
                      /\ g_trace' = (IF is_rank THEN <<"terminate", "persist">> ELSE <<>>)
                                    \o (IF running THEN <<"start">> ELSE <<"terminate">>)
                      /\ g_pc' = "reading"
    /\ UNCHANGED <<pc, canvas, timer, stats_buffer, config, is_target, pending,
                   reads, fresh, prev_rank, round_vars, fn_vars, scale_vars>>

\* a started worker ends by itself: main_gui passes args=(config,) (line 238)
\* to process(), which takes no parameter (src/core.py line 252), so the
\* child raises TypeError when it calls its target
WorkerExits ==
    /\ g_pc \in {"reading", "closed"}
    /\ \E n \in 1..Len(list_processes) :
          /\ list_processes[n].ended = "no"
          /\ list_processes' = [list_processes EXCEPT ![n].ended = "by itself"]
    /\ UNCHANGED <<g_pc, down_f3, g_event, g_trace, loop_vars, round_vars,
                   fn_vars, scale_vars>>

\* lines 208-216: config.json holds a rank (init_data), no worker, PAUSED
InitGui ==
    /\ pc = "off"
    /\ canvas = <<>>
    /\ timer = ShortDelay
    /\ stats_buffer = <<>>
    /\ config = NoConfig
    /\ is_target = FALSE
    /\ pending = <<>>
    /\ store \in Stores(LoopNames, 0)
    /\ reads = {}
    /\ fresh = TRUE
    /\ prev_rank = ""
    /\ RoundIdle
    /\ ScaleIdle
    /\ FnIdle
    /\ g_pc = "reading"
    /\ down_f3 = FALSE
    /\ list_processes = <<>>
    /\ g_event = <<>>
    /\ g_trace = <<>>

NextGui ==
    \/ HandleEvent
    \/ WorkerExits

SpecGui == InitGui /\ [][NextGui]_vars

\* ---------------------------------------------------- display loop, claims

HasNoneKey(buffer) == \E n \in 1..Len(buffer) : buffer[n][1] = None

\* C1: text is on the canvas only in a cycle whose phase check returned
\* true and whose three collected triples all have a key other than None,
\* one text per triple; in a cycle where some lookup returned the key None
\* the canvas, cleared at the start of the cycle, stays empty.
C1_RenderAllOrNothing ==
    /\ canvas # <<>> =>
          /\ is_target
          /\ pc = "idle"
          /\ Len(stats_buffer) = Len(x_positions)
          /\ ~HasNoneKey(stats_buffer)
          /\ Len(canvas) = Len(stats_buffer)
    /\ HasNoneKey(stats_buffer) => canvas = <<>>
    /\ ~is_target => canvas = <<>>

\* positions 1 and 2 resolved, position 3 not: the cycle ended, nothing drawn
C1_Witness ==
    /\ pc = "idle"
    /\ Len(stats_buffer) = 3
    /\ stats_buffer[1][1] # None
    /\ stats_buffer[2][1] # None
    /\ stats_buffer[3][1] = None
    /\ canvas = <<>>

C3_DelayByPhase ==
    /\ pc = "idle" => pending = <<IF is_target THEN 3000 ELSE 5000>>
    /\ pc # "idle" => pending = <<>>

\* a target-phase cycle that drew nothing is followed after 3000 ms
C3_Witness ==
    /\ pc = "idle"
    /\ is_target
    /\ HasNoneKey(stats_buffer)
    /\ pending = <<3000>>

\* C4: in a cycle that proceeds to lookup, every table a lookup reads is a
\* table "<rank>_1..3" of the rank of the one configuration loaded in this
\* cycle, and that configuration is config.json as it was persisted when
\* the cycle loaded it: unless a rank was persisted after the load, it is
\* the persisted configuration, whatever an earlier cycle had loaded.
C4_ConfigPerCycle ==
    (is_target /\ pc \in {"lookup", "render", "idle"}) =>
        /\ \A t \in reads : t[1] = config.rank /\ t[2] \in Slots
        /\ fresh => config = store
        /\ pc # "lookup" => reads # {}

\* the rank was changed between two loads, and the lookups of the cycle
\* after the change have read the tables of the new rank
C4_Witness ==
    /\ pc = "render"
    /\ is_target
    /\ fresh
    /\ prev_rank \in Ranks
    /\ prev_rank # store.rank
    /\ reads = {store.rank} \X Slots

\* ------------------------------------------------------ stats lookup, claims

\* the call under test: the canonicalized text and the slot tables of the
\* active rank
f_rank == f_config.rank
f_query == cleanse_text(f_text)
f_table(i) == ConfigTable(f_config, f_rank, i)

\* the slots whose table has the canonicalized text as a key
ExactSlots == {i \in Slots : f_query \in TableKeys(f_table(i))}

\* the similarity to the query of every key of a table, in iteration order
ScoresOf(table, query) ==
    [n \in 1..Len(table) |-> Ratio(Lower(table[n].key), Lower(query))]

\* the greatest of a sequence of scores, 0 for the empty sequence
MaxOf(scores) ==
    IF scores = <<>> THEN 0
    ELSE CHOOSE m \in {scores[n] : n \in 1..Len(scores)} :
            \A n \in 1..Len(scores) : scores[n] <= m

\* the first index at which a sequence of scores has its greatest value
FirstMaxOf(scores) ==
    LET m == MaxOf(scores)
    IN  CHOOSE n \in 1..Len(scores) :
            scores[n] = m /\ \A k \in 1..(n - 1) : scores[k] < m

AllSlotsRead == [i \in Slots |-> <<f_rank, i>>]

\* C5: when the canonicalized text is a key of some slot table of the active
\* rank, get_augment_stats returns the text as the key and the record stored
\* for it in the lowest-numbered such slot, whatever the earlier slots
\* scored, and has read the tables of the slots up to that one and no other.
C5_ExactShortCircuit ==
    (f_pc = "stats" /\ ExactSlots # {}) =>
        LET query == f_query
            hit == CHOOSE i \in ExactSlots : \A j \in ExactSlots : i <= j
        IN  /\ f_result.key_to_keep = query
            /\ f_result.stats = StatsOf(f_rank, hit, query)
            /\ f_result.best_score = 100
            /\ f_result.reads = [i \in 1..hit |-> <<f_rank, i>>]

\* slot 1 holds a key that scores 100 without being the text, slot 2 holds
\* the text itself: the record returned is the one of slot 2
C5_Witness ==
    /\ f_pc = "stats"
    /\ ExactSlots = {2}
    /\ MaxOf(ScoresOf(f_table(1), f_query)) = 100
    /\ f_result.key_to_keep = f_query
    /\ f_result.stats = StatsOf(f_rank, 2, f_query)

C8_AlwaysSomeKey ==
    (f_pc = "key" /\ f_table(f_slot) # <<>>) =>
        LET table == f_table(f_slot)
        IN  /\ f_result[1] \in TableKeys(table)
            /\ MaxOf(ScoresOf(table, f_query)) = 0 => f_result[1] = table[1].key

\* C8: find_approximate_key returns a key of the table exactly when some key
\* scores more than 0, and then with a positive score; when every key scores
\* 0 it returns (None, 0), as it does for an empty table.
C8_KeyOnlyIfPositive ==
    f_pc = "key" =>
        LET table == f_table(f_slot)
            best == MaxOf(ScoresOf(table, f_query))
        IN  /\ f_result[1] \in TableKeys(table) <=> best > 0
            /\ f_result[1] # None => f_result[2] > 0
            /\ best = 0 => f_result = <<None, 0>>

\* a table with keys, none of them scoring above 0: the result is (None, 0)
C8_Witness ==
    /\ f_pc = "key"
    /\ f_table(f_slot) # <<>>
    /\ MaxOf(ScoresOf(f_table(f_slot), f_query)) = 0
    /\ f_result = <<None, 0>>

\* --------------------------------------------------- phase detector, claims

\* the OCR reading the same text under every preset
SameRead(text) == [p \in Presets |-> text]

\* C9: is_augment_round returns true exactly when some preset it consulted,
\* going down from 13, read a text whose first round number is one of the
\* six target labels; it then stopped at that preset, the round number kept
\* being that label and no lower preset consulted; when no preset read one,
\* all of 13..6 were consulted and the result is false.  "Round 2-1" gives
\* true, "Round 1-4" under every preset gives false.
C9_TargetIffSomePreset ==
    /\ r_pc = "done" => r_result = r_seen_target
    /\ (r_pc \in {"after", "done"} /\ r_seen_target) =>
          /\ r_round_number \in TargetLabels
          /\ r_round_number = FirstMatch(r_text)
          /\ r_consulted = r_i..FirstPreset
    /\ (r_pc \in {"after", "done"} /\ ~r_seen_target) =>
          /\ r_consulted = Presets
          /\ r_round_number \notin TargetLabels
    /\ is_augment_round(SameRead(<<"R", "o", "u", "n", "d", " ", "2", "-", "1">>))
    /\ ~is_augment_round(SameRead(<<"R", "o", "u", "n", "d", " ", "1", "-", "4">>))

\* a higher preset read a round number that is no target, a lower one read
\* a target: the call returned true
C9_Witness ==
    /\ r_pc = "done"
    /\ r_result
    /\ r_first_token > r_i
    /\ r_i < FirstPreset

\* C10 as stated: once a preset has read a text holding a round number, no
\* lower preset is consulted.
C10_StopsAtFirstToken ==
    r_first_token # 0 => \A p \in r_consulted : p >= r_first_token

\* C10: the presets are consulted in descending order from 13; the loop goes
\* on to the next lower preset as long as no round number read is a target
\* label, whether or not a round number was read, and stops only at a preset
\* that read a target label or at preset 6.
C10_StopsAtFirstTarget ==
    /\ r_pc = "loop" =>
          /\ r_consulted = (r_i + 1)..FirstPreset
          /\ ~r_seen_target
    /\ r_pc \in {"after", "done"} =>
          /\ r_consulted = r_i..FirstPreset
          /\ r_round_number \in TargetLabels \/ r_i = LastPreset
          /\ \A p \in r_consulted : p >= LastPreset

\* a preset read a round number that is no target, and a lower preset was
\* consulted after it
C10_Witness ==
    /\ r_first_token # 0
    /\ \E p \in r_consulted : p < r_first_token
    /\ r_pc = "loop"

\* C11 as stated: a failure of the OCR engine under one preset counts as no
\* match for that preset; the call of is_augment_round goes on with the next
\* lower preset and returns a boolean, it never ends by the exception.
C11_OcrFailureNotFatal ==
    /\ r_pc \in {"idle", "loop", "after", "done"}
    /\ r_pc \in {"after", "done"} => r_consulted = r_i..FirstPreset

\* ---------------------------------------------------- canonicalizer, claims

Has(s, c) == \E n \in 1..Len(s) : s[n] = c

\* C12: cleanse_text is idempotent: applied to its own result it returns
\* that result, for every text, the empty one and those with unbalanced,
\* nested or reversed parentheses and newlines included; the result holds
\* no character other than word characters, blanks and parentheses, no
\* opening parenthesis before a closing one, no newline, and neither starts
\* nor ends with whitespace.
C12_CleanseIdempotent ==
    /\ f_pc = "cleansed twice" => f_result[2] = f_result[1]
    /\ f_pc \in {"cleansed", "cleansed twice"} =>
          LET out == f_result[1]
          IN  /\ \A n \in 1..Len(out) :
                    IsWordChar(out[n]) \/ out[n] \in {" ", "\t", "(", ")"}
              /\ \A m, n \in 1..Len(out) : (out[m] = "(" /\ out[n] = ")") => n < m
              /\ out # <<>> => out[1] \notin WhiteSpace /\ out[Len(out)] \notin WhiteSpace

\* a text with nested parentheses, changed by the first call into a text
\* that still holds a parenthesis, and left alone by the second
C12_Witness ==
    /\ f_pc = "cleansed twice"
    /\ Len(f_text) >= 2
    /\ SubSeq(f_text, 1, 2) = <<"(", "(">>
    /\ Has(f_result[1], ")")
    /\ f_result[1] # f_text
    /\ f_result[2] = f_result[1]

\* ----------------------------------------------- translate_distance, claims

\* floor(d * min(w / 2560, h / 1440)) in exact arithmetic
ExactFloor ==
    LET w == t_resolution[1] * 1440
        h == t_resolution[2] * 2560
    IN  (t_distance * (IF w <= h THEN w ELSE h)) \div (2560 * 1440)

\* C13: for a fixed reference distance, translate_distance does not decrease
\* when the live width or the live height grows, and at the reference
\* resolution (2560, 1440) it returns the distance itself; its value is the
\* floor of distance * min(width / 2560, height / 1440) as float arithmetic
\* computes it, which is the exact floor or, the product rounded to just
\* below an integer, one less.
C13_MonotoneAndReference ==
    t_pc = "translated" =>
        /\ t_before # -1 => t_before <= t_result
        /\ t_resolution = <<2560, 1440>> => t_result = t_distance
        /\ t_result \in {ExactFloor - 1, ExactFloor}
        /\ t_result >= 0

\* the resolution grew and the value with it, at a resolution where the
\* float product falls just below the exact one
C13_Witness ==
    /\ t_pc = "translated"
    /\ t_before # -1
    /\ t_before < t_result
    /\ t_result = ExactFloor - 1

\* ----------------------------------------------------------- main_gui, claims

\* the workers terminate() was not called on
NotTerminated ==
    {n \in 1..Len(list_processes) : ~list_processes[n].terminate_called}

\* C14: whenever main_gui waits for the next event, after any F3 and rank
\* events, at most one worker has not been terminated, it is the one
\* started last, and there is one exactly when the run state is RUNNING; a
\* rank event while RUNNING has terminated the workers, then persisted the
\* rank picked, then started one worker; once the window is closed every
\* worker has been terminated.
C14_OneWorkerIffRunning ==
    /\ g_pc = "reading" =>
          /\ Cardinality(NotTerminated) <= 1
          /\ NotTerminated # {} <=> down_f3
          /\ NotTerminated \subseteq {Len(list_processes)}
    /\ (g_pc = "reading" /\ g_event # <<>> /\ g_event[1] = "rank") =>
          /\ store.rank = g_event[2]
          /\ down_f3 => g_trace = <<"terminate", "persist", "start">>
    /\ g_pc = "closed" => NotTerminated = {}

\* a rank picked while RUNNING: the worker that ran is terminated, the rank
\* is persisted and one new worker is running
C14_Witness ==
    /\ g_pc = "reading"
    /\ down_f3
    /\ g_event # <<>> /\ g_event[1] = "rank"
    /\ Len(list_processes) = 2
    /\ list_processes[1] = [ended |-> "by terminate", terminate_called |-> TRUE]
    /\ list_processes[2] = [ended |-> "no", terminate_called |-> FALSE]
    /\ store.rank = g_event[2]

====
